---------------------------- MODULE Spec2Model ----------------------------
(***************************************************************************)
(* A model of src/src/main.js: the scene that main.js assembles at module  *)
(* evaluation, the animate() frame callback, the resize handler and the    *)
(* asynchronous texture loads started by loadTex / createMoon.             *)
(*                                                                         *)
(* Number representation (JavaScript doubles are modelled by exact         *)
(* fixed-point integers; every value used is exactly representable):       *)
(*   - performance.now() readings and the Date are in integer milliseconds *)
(*     (previousTime, currentTime and delta are seconds in the source:     *)
(*      1 unit = 0.001 s);                                                 *)
(*   - utcHours is in units of 1/3600000 hour;                             *)
(*   - earth.rotation.y and nightLights.rotation.y are in units of         *)
(*     pi/Pi radians (Pi units = pi rad);                                  *)
(*   - every integrated angle is in micro-radians (0.08 rad/s * 1 ms       *)
(*     = 80 micro-radians);                                                *)
(*   - clouds.rotation.y is the sum of an earth angle and an integrated    *)
(*     angle and is kept as a record of the two parts;                     *)
(*   - Math.random() samples are in hundredths (u = 15 is 0.15).           *)
(***************************************************************************)
EXTENDS Integers, Sequences, FiniteSets, TLC

VARIABLES
    pc,               \* "createStarfield" | "assembled" | "running"
    starIndex,        \* createStarfield: loop index i = number of points written
    starRand,         \* createStarfield: the Math.random() draws of the last iteration
    star,             \* the point written by the last iteration (position, size, color)
    previousTime,     \* let previousTime (ms)
    frames,           \* number of animate() invocations so far
    lastNow,          \* animate: const now = new Date()  (ms since epoch) of the last frame
    frameHist,        \* locals of the last two frames: elapsed, delta, angles before the frame
    earthRotY,        \* earth.rotation.y
    nightRotY,        \* nightLights.rotation.y
    cloudsRotY,       \* clouds.rotation.y
    moonOrbitRotY,    \* moonOrbit.rotation.y
    moonMeshRotY,     \* moonMesh.rotation.y
    satRotY,          \* satellites[k].rotation.y
    satGroupRotY,     \* satellites[k].userData.satGroup.rotation.y
    starfieldRotY,    \* starfield.rotation.y
    sunDirection,     \* nightLights.material.uniforms.sunDirection.value
    clockEl,          \* whether document.getElementById("utc-clock") found an element
    clockText,        \* clockEl.textContent
    pendingCallbacks, \* callbacks registered with requestAnimationFrame and not yet run
    frameLog,         \* the calls made by the last animate() invocation, in order
    controlsUpdates,  \* number of controls.update() calls
    renders,          \* number of renderer.render() calls
    cameraAspect,     \* camera.aspect
    rendererSize,     \* size given to renderer.setSize
    material,         \* material field of a body -> texture handle held by the field
    texImage          \* texture handle -> "pending" | "loaded" | "failed"

transformVars == <<earthRotY, nightRotY, cloudsRotY, moonOrbitRotY, moonMeshRotY,
                   satRotY, satGroupRotY, starfieldRotY>>
frameVars == <<previousTime, frames, lastNow, frameHist, sunDirection, clockText,
               pendingCallbacks, frameLog, controlsUpdates, renders>>
starVars == <<starIndex, starRand, star>>
viewVars == <<cameraAspect, rendererSize>>
textureVars == <<material, texImage>>
vars == <<pc, clockEl, transformVars, frameVars, starVars, viewVars, textureVars>>

----------------------------------------------------------------------------
(* Bounds of the model *)

MaxFrames == 3
InitialPerfMs == 120

\* currentTime - previousTime (ms), the difference of two readings of
\* performance.now() as animate() finds it: a reading below the previous one
\* (a clock irregularity; animate() has no guard of its own against it), no
\* progress, an ordinary frame, a slower frame, exactly the clamp, a 5 second
\* stall.
ElapsedSet == {-50, 0, 16, 40, 100, 5000}

\* Instants (ms since the epoch) read by new Date(): 00:00:00.000, 06:00:00.000,
\* 12:00:00.000, 23:59:59.999 of day 0, and 13:37:42.123 of day 1.
DateSet == {0, 21600000, 43200000, 86399999, 86400000 + 49062123}

\* The smaller input sets used where frames interleave with texture loads or
\* follow the starfield construction.
AsyncElapsedSet == {16, 5000}
AsyncDateSet == {43200000, 86400000 + 49062123}

WindowSizes == {<<1280, 720>>, <<800, 600>>}

----------------------------------------------------------------------------
(* Arithmetic helpers *)

Min(a, b) == IF a < b THEN a ELSE b

Abs(a) == IF a < 0 THEN -a ELSE a

RECURSIVE GCD(_, _)
GCD(a, b) == IF b = 0 THEN a ELSE GCD(b, a % b)

RECURSIVE ISqrtFrom(_, _)
ISqrtFrom(n, k) == IF (k + 1) * (k + 1) > n THEN k ELSE ISqrtFrom(n, k + 1)

\* Math.sqrt on the perfect squares the model uses
ISqrt(n) == ISqrtFrom(n, 0)

\* Vector3.normalize(): the unit vector of direction v, represented by the
\* primitive integer vector of that direction.
Normalize(v) ==
    LET g == GCD(GCD(Abs(v[1]), Abs(v[2])), Abs(v[3]))
    IN  IF g = 0 THEN v ELSE <<v[1] \div g, v[2] \div g, v[3] \div g>>

----------------------------------------------------------------------------
(* Constants of main.js *)

Pi == 86400000                  \* Math.PI, in angle units of the earth rotation
MsPerHour == 3600000
MaxDelta == 100                 \* 0.1 s
MoonRate == 80                  \* 0.08 rad/s
SatSpinRate == 300              \* 0.3 rad/s
StarfieldRate == 1              \* 0.001 rad/s
CloudDriftRate == 3             \* 0.003 rad/s
starCount == 6000
StarInnerRadius == 200
StarShell == 100
SatSpeeds == <<500, 300, 700>>  \* createSatellite(..., 0.5 | 0.3 | 0.7, ...)
SunLightPosition == <<20, 5, 20>>
InitialSunDirection == Normalize(<<1, 0, 1>>)

Sats == 1..Len(SatSpeeds)


----------------------------------------------------------------------------
(* Date: the UTC fields of an instant t (ms since the epoch, t >= 0) *)

GetUTCHours(t) == (t \div MsPerHour) % 24
GetUTCMinutes(t) == (t \div 60000) % 60
GetUTCSeconds(t) == (t \div 1000) % 60
GetUTCMilliseconds(t) == t % 1000

\* A variant of UtcHours without the milliseconds term
UtcHoursSkipsMs(now) ==
    GetUTCHours(now) * MsPerHour
    + GetUTCMinutes(now) * (MsPerHour \div 60)
    + GetUTCSeconds(now) * (MsPerHour \div 3600)

\* utcHours of animate(), in units of 1/3600000 hour:
\*   H + M / 60 + S / 3600 + ms / 3600000
UtcHours(now) ==
    GetUTCHours(now) * MsPerHour
    + GetUTCMinutes(now) * (MsPerHour \div 60)
    + GetUTCSeconds(now) * (MsPerHour \div 3600)
    + GetUTCMilliseconds(now) * (MsPerHour \div 3600000)

\* (utcHours / 24) * Math.PI * 2, for utcHours in units of 1/3600000 hour.
\* 24 hours divide 2 * Pi angle units exactly, so the quotient is taken first.
EarthAngle(utcHours) == utcHours * ((Pi * 2) \div (24 * MsPerHour))

\* String(n).padStart(2, "0"), as the sequence of decimal digits
PadStart2(n) == IF n < 10 THEN <<0, n>> ELSE <<n \div 10, n % 10>>

\* "UTC " + HH + ":" + MM + ":" + SS
ClockString(now) ==
    <<"UTC", PadStart2(GetUTCHours(now)), PadStart2(GetUTCMinutes(now)),
      PadStart2(GetUTCSeconds(now))>>

----------------------------------------------------------------------------
(* createStarfield: one iteration of the loop *)

\* The Math.random() draws of one iteration, in hundredths:
\* <<for r, for theta, for phi, for the size, for temp>>.
\* Positions on the inner edge, in the middle and on the outer edge of the
\* shell, in every quarter of the azimuth, at a pole and off it; the
\* smallest and the largest size with temp at both ends of its range and on
\* either side of the thresholds 0.15 and 0.3.
StarSamples ==
    { <<r, d[1], d[2], 50, 50>> :
        r \in {0, 50, 99}, d \in {<<0, 0>>, <<25, 20>>, <<50, 50>>, <<75, 90>>} }
    \cup { <<50, 25, 20, sz, temp>> : sz \in {0, 99}, temp \in {0, 14, 15, 29, 30, 99} }

\* Math.cos / Math.sin of u * Math.PI * 2 at the quarter turns
CosTurn(u) == CASE u = 0 -> 1 [] u = 25 -> 0 [] u = 50 -> -1 [] u = 75 -> 0
SinTurn(u) == CASE u = 0 -> 0 [] u = 25 -> 1 [] u = 50 -> 0 [] u = 75 -> -1

\* phi = Math.acos(2 * u - 1): cos(phi) and sin(phi), both times 100
CosPhi(u) == 2 * u - 100
SinPhi(u) == ISqrt(100 * 100 - CosPhi(u) * CosPhi(u))

Warm == <<100, 85, 70>>
Cool == <<70, 80, 100>>
White == <<100, 100, 100>>

\* A variant of StarColor whose comparisons are <= instead of <
StarColorInclusive(temp) ==
    IF temp <= 15 THEN Warm ELSE IF temp <= 30 THEN Cool ELSE White

\* The color chosen for the sample temp: if (temp < 0.15) ... else if
\* (temp < 0.3) ... else ...
StarColor(temp) ==
    IF temp < 15 THEN Warm ELSE IF temp < 30 THEN Cool ELSE White

\* The point written at index i from the draws s: position times 100,
\* size times 1000, color times 100.
MakeStar(s) ==
    LET r == StarInnerRadius + (s[1] * StarShell) \div 100
    IN  [ pos   |-> << r * SinPhi(s[3]) * CosTurn(s[2]),
                       r * SinPhi(s[3]) * SinTurn(s[2]),
                       r * CosPhi(s[3]) >>,
          size  |-> 300 + s[4] * 7,
          color |-> StarColor(s[5]) ]

\* MakeStar, tabulated over the samples
StarOf == [s \in StarSamples |-> MakeStar(s)]

NoStar == [pos |-> <<0, 0, 0>>, size |-> 0, color |-> <<0, 0, 0>>]
NoRand == <<0, 0, 0, 0, 0>>

----------------------------------------------------------------------------
(* Textures and materials *)

\* The material fields that are given a texture at construction
Slots == { <<"earth", "map">>, <<"earth", "normalMap">>, <<"earth", "roughnessMap">>,
           <<"clouds", "map">>, <<"nightLights", "nightMap">>,
           <<"moon", "map">>, <<"moon", "normalMap">> }

\* loader.load(path, ...) returns a texture object at once; the handle of a
\* texture is the path it was requested from.
TexturePath(slot) ==
    CASE slot = <<"earth", "map">>            -> "textures/earth_albedo_8k.jpg"
      [] slot = <<"earth", "normalMap">>      -> "textures/earth_normal_8k.jpg"
      [] slot = <<"earth", "roughnessMap">>   -> "textures/earth_specular_8k.jpg"
      [] slot = <<"clouds", "map">>           -> "textures/earth_clouds_4k.png"
      [] slot = <<"nightLights", "nightMap">> -> "textures/earth_night_8k.jpg"
      [] slot = <<"moon", "map">>             -> "textures/moon_albedo_4k.jpg"
      [] slot = <<"moon", "normalMap">>       -> "textures/moon_normal_4k.jpg"

Textures == { TexturePath(slot) : slot \in Slots }

MoonNormalSlot == <<"moon", "normalMap">>
MoonNormalTex == TexturePath(MoonNormalSlot)

\* The value of a material field that holds no texture
NoTexture == "null"

\* new THREE.MeshPhysicalMaterial({ map: loadTex(...), ... }) and the like:
\* every field of Slots holds the texture object that loader.load returned.
AssembledMaterial == [slot \in Slots |-> TexturePath(slot)]

\* The bodies whose material refers to texture h
BodiesUsing(h) == { slot[1] : slot \in { sl \in Slots : material[sl] = h } }

----------------------------------------------------------------------------
(* The state after scene assembly (main.js lines 1-395) *)

SceneDefaults(sizes) ==
    /\ frames = 0
    /\ lastNow = 0
    /\ frameHist = <<>>
    /\ earthRotY = 0
    /\ nightRotY = 0
    /\ cloudsRotY = [earth |-> 0, drift |-> 0]
    /\ moonOrbitRotY = 0
    /\ moonMeshRotY = 0
    /\ satRotY = [k \in Sats |-> 0]
    /\ satGroupRotY = [k \in Sats |-> 0]
    /\ starfieldRotY = 0
    /\ sunDirection = InitialSunDirection
    /\ clockText = <<>>
    /\ pendingCallbacks = 0
    /\ frameLog = <<>>
    /\ controlsUpdates = 0
    /\ renders = 0
    /\ \E size \in sizes :
          /\ cameraAspect = <<size[1] \div GCD(size[1], size[2]),
                              size[2] \div GCD(size[1], size[2])>>
          /\ rendererSize = size
    /\ material = AssembledMaterial
    /\ texImage = [h \in Textures |-> "pending"]

\* The scene is assembled; animate() has not been called yet.
Init ==
    /\ pc = "assembled"
    /\ starIndex = starCount
    /\ starRand = <<50, 25, 20, 50, 50>>
    /\ star = StarOf[starRand]
    /\ previousTime = InitialPerfMs
    /\ clockEl \in BOOLEAN
    /\ SceneDefaults(WindowSizes)

\* createStarfield is about to enter its loop (line 273): previousTime and
\* clockEl are not assigned yet.
InitStarfield ==
    /\ pc = "createStarfield"
    /\ starIndex = 0
    /\ starRand = NoRand
    /\ star = NoStar
    /\ previousTime = 0
    /\ clockEl = FALSE
    /\ SceneDefaults({<<1280, 720>>})

----------------------------------------------------------------------------
(* animate() *)

\* A variant of RequestAnimationFrame that registers nothing
RequestAnimationFrameDropped(pending) == pending

\* requestAnimationFrame(animate): one more callback is registered
RequestAnimationFrame(pending) == pending + 1

\* A variant of Delta without the clamp
DeltaUnclamped(currentTime, prevTime) == currentTime - prevTime

\* const delta = Math.min(currentTime - previousTime, 0.1)
Delta(currentTime, prevTime) == Min(currentTime - prevTime, MaxDelta)

\* A variant of NightLightsRotation that copies the angle before the earth
\* has been turned
NightLightsStale(newEarth, oldEarth) == oldEarth

\* nightLights.rotation.y = earth.rotation.y, read after earth.rotation.y was
\* assigned newEarth (oldEarth is the value it had before the frame)
NightLightsRotation(newEarth, oldEarth) == newEarth

\* clouds.rotation.y = earth.rotation.y + currentTime * 0.003
CloudsRotation(earthAngle, currentTime) ==
    [earth |-> earthAngle, drift |-> currentTime * CloudDriftRate]

\* moonOrbit.rotation.y += delta * 0.08
MoonOrbitStep(angle, delta) == angle + delta * MoonRate

\* A variant of MoonMeshStep that turns the body at another rate
MoonMeshStepAtSpinRate(angle, delta) == angle + delta * SatSpinRate

\* moonMesh.rotation.y += delta * 0.08
MoonMeshStep(angle, delta) == angle + delta * MoonRate

\* A variant of SatStep that assigns (=) where the source accumulates (+=)
SatStepAssigns(angle, delta, k) == delta * SatSpeeds[k]

\* sat.rotation.y += delta * sat.userData.speed
SatStep(angle, delta, k) == angle + delta * SatSpeeds[k]

\* sat.userData.satGroup.rotation.y += delta * 0.3
SatSpinStep(angle, delta) == angle + delta * SatSpinRate

\* starfield.rotation.y += delta * 0.001
StarfieldStep(angle, delta) == angle + delta * StarfieldRate

\* The calls one invocation of animate() makes, in order; "transforms" stands
\* for lines 400-447, which assign every transform, the sun direction and the
\* clock text once each.
FrameCalls ==
    <<"requestAnimationFrame", "transforms", "controls.update", "renderer.render">>

Count(seq, x) == Cardinality({ i \in 1..Len(seq) : seq[i] = x })

LastTwo(seq) == IF Len(seq) > 2 THEN Tail(seq) ELSE seq

\* One invocation of animate() that reads now from the Date and finds the
\* performance clock moved by elapsed since the reading before;
\* pending is the number of registered callbacks when the invocation begins.
AnimateBody(now, elapsed, pending) ==
    LET currentTime == previousTime + elapsed
        delta == Delta(currentTime, previousTime)
        earthAngle == EarthAngle(UtcHours(now))
    IN  /\ pendingCallbacks' = RequestAnimationFrame(pending)
        /\ previousTime' = currentTime
        /\ lastNow' = now
        /\ frames' = frames + 1
        /\ frameHist' = LastTwo(Append(frameHist,
                            [elapsed |-> elapsed, delta |-> delta, satBefore |-> satRotY]))
        /\ earthRotY' = earthAngle
        /\ nightRotY' = NightLightsRotation(earthAngle, earthRotY)
        /\ sunDirection' = Normalize(SunLightPosition)
        /\ cloudsRotY' = CloudsRotation(earthAngle, currentTime)
        /\ moonOrbitRotY' = MoonOrbitStep(moonOrbitRotY, delta)
        /\ moonMeshRotY' = MoonMeshStep(moonMeshRotY, delta)
        /\ satRotY' = [k \in Sats |-> SatStep(satRotY[k], delta, k)]
        /\ satGroupRotY' = [k \in Sats |-> SatSpinStep(satGroupRotY[k], delta)]
        /\ starfieldRotY' = StarfieldStep(starfieldRotY, delta)
        /\ clockText' = IF clockEl THEN ClockString(now) ELSE clockText
        /\ frameLog' = FrameCalls
        /\ controlsUpdates' = controlsUpdates + Count(FrameCalls, "controls.update")
        /\ renders' = renders + Count(FrameCalls, "renderer.render")
        /\ UNCHANGED <<clockEl, starVars, viewVars, textureVars>>

\* main.js line 453: the first, direct call of animate(); the module then adds
\* the resize listener (line 467) and its evaluation ends.
Start(dates, elapsedTimes) ==
    /\ pc = "assembled"
    /\ \E now \in dates, elapsed \in elapsedTimes :
          AnimateBody(now, elapsed, pendingCallbacks)
    /\ pc' = "running"

\* A variant of FrameReady that waits until no texture load is pending
FrameReadyWhenLoaded ==
    pendingCallbacks > 0 /\ \A h \in DOMAIN texImage : texImage[h] # "pending"

\* The host runs a registered frame callback whenever one is registered;
\* nothing else conditions it.
FrameReady == pendingCallbacks > 0

\* The host runs the registered callback: animate()
FrameCallback(dates, elapsedTimes) ==
    /\ pc = "running"
    /\ FrameReady
    /\ frames < MaxFrames
    /\ \E now \in dates, elapsed \in elapsedTimes :
          AnimateBody(now, elapsed, pendingCallbacks - 1)
    /\ pc' = pc

----------------------------------------------------------------------------
(* onWindowResize(): camera.aspect = w / h (kept as the ratio in lowest      *)
(* terms; the projection matrix is a function of it) and renderer.setSize.  *)
(* An event that reports the current size changes nothing.                  *)

Resize ==
    /\ pc = "running"
    /\ \E size \in WindowSizes :
          /\ size # rendererSize
          /\ cameraAspect' = <<size[1] \div GCD(size[1], size[2]),
                               size[2] \div GCD(size[1], size[2])>>
          /\ rendererSize' = size
    /\ UNCHANGED <<pc, clockEl, transformVars, frameVars, starVars, textureVars>>

----------------------------------------------------------------------------
(* Texture loads: the callbacks of loader.load *)

\* The image of texture h arrives: TextureLoader stores it in the texture.
TextureLoaded ==
    /\ pc = "running"
    /\ \E h \in Textures :
          /\ texImage[h] = "pending"
          /\ texImage' = [texImage EXCEPT ![h] = "loaded"]
    /\ UNCHANGED <<pc, clockEl, transformVars, frameVars, starVars, viewVars, material>>

\* The load of texture h fails. For the moon normal map the error callback
\* () => { } runs; the other loads have none. Neither touches a material.
TextureFailed ==
    /\ pc = "running"
    /\ \E h \in Textures :
          /\ texImage[h] = "pending"
          /\ texImage' = [texImage EXCEPT ![h] = "failed"]
    /\ UNCHANGED <<pc, clockEl, transformVars, frameVars, starVars, viewVars, material>>

----------------------------------------------------------------------------
(* createStarfield(), iteration by iteration, and the rest of the assembly *)

StarLoop ==
    /\ pc = "createStarfield"
    /\ starIndex < starCount
    /\ \E s \in StarSamples :
          /\ starRand' = s
          /\ star' = StarOf[s]
    /\ starIndex' = starIndex + 1
    /\ UNCHANGED <<pc, clockEl, transformVars, frameVars, viewVars, textureVars>>

\* The loop ends at i = starCount; lines 305-395 build the Points object and
\* the lights, look up the clock element and read the performance clock into
\* previousTime.
FinishAssembly ==
    /\ pc = "createStarfield"
    /\ starIndex >= starCount
    /\ pc' = "assembled"
    /\ previousTime' = InitialPerfMs
    /\ clockEl' \in BOOLEAN
    /\ UNCHANGED <<transformVars, frames, lastNow, frameHist, sunDirection,
                   clockText, pendingCallbacks, frameLog, controlsUpdates, renders,
                   starVars, viewVars, textureVars>>

----------------------------------------------------------------------------
(* Specifications *)

\* The frame loop and the resize handler under the full clock inputs
Next ==
    \/ Start(DateSet, ElapsedSet)
    \/ FrameCallback(DateSet, ElapsedSet)
    \/ Resize

Spec == Init /\ [][Next]_vars

\* Frames, resize events and texture-load completions in every interleaving
NextAsync ==
    \/ Start(AsyncDateSet, AsyncElapsedSet)
    \/ FrameCallback(AsyncDateSet, AsyncElapsedSet)
    \/ Resize
    \/ TextureLoaded
    \/ TextureFailed

SpecAsync == Init /\ [][NextAsync]_vars

\* The starfield construction followed by the frame loop
NextStarfield ==
    \/ StarLoop
    \/ FinishAssembly
    \/ Start(AsyncDateSet, AsyncElapsedSet)
    \/ FrameCallback(AsyncDateSet, AsyncElapsedSet)

SpecStarfield == InitStarfield /\ [][NextStarfield]_vars

----------------------------------------------------------------------------
(* Properties *)

MsPerDay == 24 * MsPerHour

\* The fraction a / b in lowest terms (b > 0, a >= 0)
Reduced(a, b) == <<a \div GCD(a, b), b \div GCD(a, b)>>

LastFrame == frameHist[Len(frameHist)]

\* C1: after every frame run at the UTC instant T, earth.rotation.y is the
\* fraction (time since the last UTC midnight) / (one day) of a full turn; it
\* depends on T alone, whatever frames, deltas or stalls came before. At
\* 00:00:00.000 it is 0, at 06:00:00.000 pi/2 and at 12:00:00.000 pi.
EarthRotationFollowsUTC ==
    frames > 0 =>
        /\ Reduced(earthRotY, 2 * Pi) = Reduced(lastNow % MsPerDay, MsPerDay)
        /\ (lastNow % MsPerDay = 0 => earthRotY = 0)
        /\ (lastNow % MsPerDay = 6 * MsPerHour => 2 * earthRotY = Pi)
        /\ (lastNow % MsPerDay = 12 * MsPerHour => earthRotY = Pi)

\* A frame at noon that follows a 5 second stall, and a frame at an instant
\* with non-zero minutes, seconds and milliseconds
EarthAtNoonAfterStall ==
    /\ frames >= 2
    /\ lastNow = 43200000
    /\ earthRotY = Pi
    /\ LastFrame.elapsed = 5000

\* C2: between frames, from the assembled scene on and in every interleaving
\* of frames, resize events and texture-load completions,
\* nightLights.rotation.y equals earth.rotation.y.
NightLightsCoRegistered == nightRotY = earthRotY

NightLightsTurnedWithEarth ==
    /\ frames >= 2
    /\ earthRotY # 0
    /\ nightRotY = earthRotY
    /\ \E h \in Textures : texImage[h] = "loaded"
    /\ \E h \in Textures : texImage[h] = "failed"

\* C3: the delta a frame integrates with is at most 0.1 s whatever the real
\* elapsed time, and is exactly 0.1 s when the real elapsed time is larger;
\* no integrated angle advances by more than 0.1 s times its rate in a frame.
DeltaClamped ==
    \A i \in 1..Len(frameHist) :
        /\ frameHist[i].delta <= 100
        /\ (frameHist[i].elapsed > 100 => frameHist[i].delta = 100)
        /\ (i = Len(frameHist) =>
               \A k \in Sats : satRotY[k] - frameHist[i].satBefore[k] <= 100 * SatSpeeds[k])

StallClampedToMaxDelta ==
    /\ frames >= 1
    /\ LastFrame.elapsed = 5000
    /\ LastFrame.delta = 100
    /\ satRotY[1] - LastFrame.satBefore[1] = 100 * 500

\* C4: after two consecutive frames whose elapsed times d1 and d2 are not
\* clamped, a satellite of angular speed s has turned from its angle before
\* the two frames to exactly that angle + s*d1 + s*d2 (hence to the same angle
\* modulo 2*pi), which is the angle + s*(d1 + d2): only the total matters,
\* not the split.
SatelliteTwoFrameIntegration ==
    (Len(frameHist) = 2 /\ frameHist[1].elapsed <= 100 /\ frameHist[2].elapsed <= 100) =>
        \A k \in Sats :
            /\ satRotY[k] = frameHist[1].satBefore[k]
                              + SatSpeeds[k] * frameHist[1].elapsed
                              + SatSpeeds[k] * frameHist[2].elapsed
            /\ satRotY[k] = frameHist[1].satBefore[k]
                              + SatSpeeds[k] * (frameHist[1].elapsed + frameHist[2].elapsed)

\* Two uneven frames (16 ms, then 40 ms) starting from a non-zero angle
SatelliteAfterUnevenFrames ==
    /\ frames = 3
    /\ frameHist[1].elapsed = 16
    /\ frameHist[2].elapsed = 40
    /\ frameHist[1].satBefore[3] > 0
    /\ satRotY[3] = frameHist[1].satBefore[3] + 700 * 56

\* C5: a frame whose elapsed time is zero or negative leaves the moon orbit
\* angle, the moon's own rotation, every satellite's orbit and spin angle and
\* the starfield rotation as they were.
NonPositiveElapsedIsNoOp ==
    [][ (frames' = frames + 1 /\ frameHist'[Len(frameHist')].elapsed <= 0) =>
            /\ moonOrbitRotY' = moonOrbitRotY
            /\ moonMeshRotY' = moonMeshRotY
            /\ satRotY' = satRotY
            /\ satGroupRotY' = satGroupRotY
            /\ starfieldRotY' = starfieldRotY ]_vars

\* C9: once started, every invocation of animate() registers one successor,
\* updates the transforms, calls controls.update() and then renderer.render(),
\* once each and in that order; exactly one callback is pending between
\* frames, resize events included, and the host can always run it.
FrameProtocol ==
    /\ pc = "assembled" => (pendingCallbacks = 0 /\ frames = 0)
    /\ pc = "running" =>
          /\ pendingCallbacks = 1
          /\ frames >= 1
          /\ frameLog = <<"requestAnimationFrame", "transforms",
                          "controls.update", "renderer.render">>
          /\ controlsUpdates = frames
          /\ renders = frames
          /\ (frames < MaxFrames => ENABLED FrameCallback(DateSet, ElapsedSet))

LoopRunningAfterFrames ==
    /\ pc = "running"
    /\ frames >= 3
    /\ pendingCallbacks = 1
    /\ renders = frames
    /\ rendererSize = <<800, 600>>
    /\ LastFrame.elapsed = 5000

\* C10: the moon orbit group and the moon body turn together:
\* moonOrbit.rotation.y equals moonMesh.rotation.y in every state, stalls
\* included.
MoonTidallyLocked == moonOrbitRotY = moonMeshRotY

MoonTurnedThroughStall ==
    /\ frames >= 2
    /\ moonOrbitRotY > 0
    /\ moonMeshRotY = moonOrbitRotY
    /\ LastFrame.elapsed = 5000
    /\ frameHist[1].elapsed = 16

Bodies == { slot[1] : slot \in Slots }

\* What the material of a body shows: for each of its texture fields, the
\* texture the field holds and the state of that texture's image.
MaterialState(body) ==
    [ slot \in { sl \in Slots : sl[1] = body } |->
        [tex |-> material[slot], image |-> texImage[material[slot]]] ]

\* C6: texture loads never gate the frame loop: whatever loads are pending,
\* loaded or failed, the registered frame callback can run; and a load
\* completion or failure changes the material of exactly one body, the one
\* that requested the texture, and no transform angle, not the sun-direction
\* uniform and no other body's material.
LoadsNeverGateFrames ==
    /\ []((pc = "running" /\ frames < MaxFrames) =>
             ENABLED FrameCallback(AsyncDateSet, AsyncElapsedSet))
    /\ [][ texImage' # texImage =>
             \E h \in Textures :
                /\ \A g \in Textures \ {h} : texImage'[g] = texImage[g]
                /\ Cardinality(BodiesUsing(h)) = 1
                /\ \A b \in Bodies \ BodiesUsing(h) : MaterialState(b)' = MaterialState(b)
                /\ \A b \in BodiesUsing(h) : MaterialState(b)' # MaterialState(b)
                /\ transformVars' = transformVars
                /\ sunDirection' = sunDirection
                /\ frames' = frames ]_vars

\* Frames have run while some loads were pending, some had completed and
\* some had failed
FramesRanAmidLoads ==
    /\ frames >= 3
    /\ \E h \in Textures : texImage[h] = "pending"
    /\ \E h \in Textures : texImage[h] = "loaded"
    /\ \E h \in Textures : texImage[h] = "failed"
    /\ moonOrbitRotY > 0

\* C7: when the load of the optional moon normal map has failed, the normalMap
\* field of the moon material does not hold a texture.
MoonNormalUnsetWhenMissing ==
    texImage[MoonNormalTex] = "failed" => material[MoonNormalSlot] = NoTexture

\* C8: createStarfield writes exactly 6000 points; every point written lies
\* between 200 and 300 from the origin, has a size between 0.3 and 1.0 and one
\* of the three colors, warm when its color sample is below 0.15, cool when
\* the sample is in [0.15, 0.3) and white otherwise; no frame changes a point.
StarfieldWellFormed ==
    /\ [](/\ starIndex \in 0..6000
          /\ (pc # "createStarfield" => starIndex = 6000)
          /\ (starIndex > 0 =>
                LET d2 == star.pos[1] * star.pos[1] + star.pos[2] * star.pos[2]
                           + star.pos[3] * star.pos[3]
                IN  /\ d2 >= (200 * 100) * (200 * 100)
                    /\ d2 <= (300 * 100) * (300 * 100)
                    /\ star.size >= 300
                    /\ star.size <= 1000
                    /\ star.color \in {<<100, 85, 70>>, <<70, 80, 100>>, <<100, 100, 100>>}
                    /\ (starRand[5] < 15 => star.color = <<100, 85, 70>>)
                    /\ ((starRand[5] >= 15 /\ starRand[5] < 30) =>
                            star.color = <<70, 80, 100>>)
                    /\ (starRand[5] >= 30 => star.color = <<100, 100, 100>>)))
    /\ [][ pc # "createStarfield" => (star' = star /\ starIndex' = starIndex) ]_vars

\* The finished starfield, its last point cool at the threshold 0.15, after
\* frames have turned it
StarfieldBuiltAndTurned ==
    /\ pc = "running"
    /\ frames >= 2
    /\ starfieldRotY > 0
    /\ starIndex = 6000
    /\ starRand[5] = 15
    /\ star.color = <<70, 80, 100>>

=============================================================================
